---- MODULE Spec2Model ----
(***************************************************************************)
(* A model of roll.py: the dice-expression evaluator, the spark-table      *)
(* loader, the table selector, the spark roller and the CLI driver.        *)
(*                                                                         *)
(* A Python string is a sequence of one-character strings.  Code points    *)
(* outside ASCII are written by name: "U+00E1" is a-acute, "U+0301" the    *)
(* combining acute accent, "U+0142" the Polish l-with-stroke.              *)
(***************************************************************************)
EXTENDS Integers, Sequences, FiniteSets, TLC

VARIABLES
    expr, dpc, tokens, ti, total, details, derr,
    spark_data, name, spc, selected, serr,
    table_obj, rpc, rolled, listing,
    lines, i, current_sheet, sheets, lpc,
    args, fs, mpc, executed, failed, exit_status

diceVars  == <<expr, dpc, tokens, ti, total, details, derr>>
selVars   == <<spark_data, name, spc, selected, serr>>
sparkVars == <<table_obj, rpc, rolled, listing>>
loadVars  == <<lines, i, current_sheet, sheets, lpc>>
mainVars  == <<args, fs, mpc, executed, failed, exit_status>>
vars      == <<diceVars, selVars, sparkVars, loadVars, mainVars>>

None == "None"

\* An optional record (a result not yet there) is <<>> or <<the record>>.

-----------------------------------------------------------------------------
(* Bounds of the model.                                                    *)

MaxLen == 4        \* longest dice expression, in characters
MaxDice == 2       \* largest dice count of an input expression
MaxSides == 6      \* largest number of sides of an input expression

-----------------------------------------------------------------------------
(* Characters and strings.                                                 *)

Digits == {"0", "1", "2", "3", "4", "5", "6", "7", "8", "9"}

\* str.isdigit() / the regex class \d on the characters of the model.
IsDigitChar(c) == c \in Digits

IsDigitStr(s) == Len(s) > 0 /\ \A k \in 1..Len(s) : IsDigitChar(s[k])

DigitVal(c) ==
    CASE c = "0" -> 0 [] c = "1" -> 1 [] c = "2" -> 2 [] c = "3" -> 3
      [] c = "4" -> 4 [] c = "5" -> 5 [] c = "6" -> 6 [] c = "7" -> 7
      [] c = "8" -> 8 [] c = "9" -> 9

\* int(s) of a digit string.
RECURSIVE ToInt(_)
ToInt(s) ==
    IF Len(s) = 0 THEN 0
    ELSE 10 * ToInt(SubSeq(s, 1, Len(s) - 1)) + DigitVal(s[Len(s)])

\* str.lower() on one character.
LowerChar(c) ==
    CASE c = "A" -> "a" [] c = "B" -> "b" [] c = "C" -> "c" [] c = "D" -> "d"
      [] c = "X" -> "x" [] OTHER -> c

Lower(s) == [k \in 1..Len(s) |-> LowerChar(s[k])]

\* The characters of s that are not in drop, in order.
RECURSIVE Remove(_, _)
Remove(s, drop) ==
    IF Len(s) = 0 THEN <<>>
    ELSE IF s[1] \in drop THEN Remove(Tail(s), drop)
    ELSE <<s[1]>> \o Remove(Tail(s), drop)

\* The strings over alphabet of length 0..n.
RECURSIVE StringsUpTo(_, _)
StringsUpTo(alphabet, n) ==
    IF n = 0 THEN {<<>>}
    ELSE LET shorter == StringsUpTo(alphabet, n - 1)
         IN  shorter \cup {Append(s, c) : s \in {t \in shorter : Len(t) = n - 1},
                                           c \in alphabet}

RECURSIVE SumSeq(_)
SumSeq(s) == IF Len(s) = 0 THEN 0 ELSE s[1] + SumSeq(Tail(s))

-----------------------------------------------------------------------------
(* Dice: roll_expression.                                                  *)

\* expr.lower().replace(" ", ""): only the space character is removed.
NormalizeExpr(e) == Remove(Lower(e), {" "})

\* The number of digit characters of s from position p on.
RECURSIVE DigitRun(_, _)
DigitRun(s, p) ==
    IF p <= Len(s) /\ IsDigitChar(s[p]) THEN 1 + DigitRun(s, p + 1) ELSE 0

\* DICE_TOKEN.match at position p: the position after the match of
\* [+-]?\d*d?\d+ that the backtracking matcher finds first, 0 when there is
\* none.  Every quantifier is greedy: the sign is taken when present, \d*
\* takes the whole digit run; d? and \d+ then match "d" and a non-empty
\* digit run when they are there; otherwise \d* gives back one digit for
\* \d+, and the match is the digit run alone.  A sign with neither form
\* after it matches nothing, with or without the sign.
MatchEnd(s, p) ==
    LET q == IF s[p] \in {"+", "-"} THEN p + 1 ELSE p
        n == DigitRun(s, q)
        m == IF q + n <= Len(s) /\ s[q + n] = "d" THEN DigitRun(s, q + n + 1) ELSE 0
    IN  IF m >= 1 THEN q + n + 1 + m
        ELSE IF n >= 1 THEN q + n
        ELSE 0

\* DICE_TOKEN.findall: the non-overlapping matches, scanned left to right;
\* a character no match starts at is skipped.
RECURSIVE FindAllFrom(_, _)
FindAllFrom(s, p) ==
    IF p > Len(s) THEN <<>>
    ELSE LET e == MatchEnd(s, p)
         IN  IF e = 0 THEN FindAllFrom(s, p + 1)
             ELSE <<SubSeq(s, p, e - 1)>> \o FindAllFrom(s, e)

FindAll(s) == FindAllFrom(s, 1)

\* Lines 24-29: the sign of a token and the token without it.
TokenSign(token) == IF Len(token) > 0 /\ token[1] = "-" THEN -1 ELSE 1

TokenBody(token) ==
    IF Len(token) > 0 /\ token[1] \in {"+", "-"} THEN Tail(token) ELSE token

\* re.fullmatch(r'(\d*)d(\d+)', token): the position of the "d", 0 when the
\* token does not match.
DicePos(body) ==
    LET ok == {k \in 1..Len(body) :
                 /\ body[k] = "d"
                 /\ \A j \in 1..(k - 1) : IsDigitChar(body[j])
                 /\ IsDigitStr(SubSeq(body, k + 1, Len(body)))}
    IN  IF ok = {} THEN 0 ELSE CHOOSE k \in ok : TRUE

\* Lines 33-34: num and sides of a dice token.
DiceNum(body) ==
    IF DicePos(body) = 1 THEN 1 ELSE ToInt(SubSeq(body, 1, DicePos(body) - 1))

DiceSides(body) == ToInt(SubSeq(body, DicePos(body) + 1, Len(body)))

\* The term a token stands for: what lines 24-46 read off it before any die
\* is rolled.
Term(token) ==
    LET body == TokenBody(token)
    IN  IF DicePos(body) > 0
        THEN [kind |-> "dice", sign |-> TokenSign(token),
              num |-> DiceNum(body), sides |-> DiceSides(body)]
        ELSE IF IsDigitStr(body)
        THEN [kind |-> "const", sign |-> TokenSign(token),
              num |-> ToInt(body), sides |-> 0]
        ELSE [kind |-> "invalid", sign |-> TokenSign(token), num |-> 0, sides |-> 0]

\* The term sequence of an expression (lines 15-16, then 24-34 per token).
TermsOf(e) ==
    LET t == FindAll(NormalizeExpr(e)) IN [k \in 1..Len(t) |-> Term(t[k])]

\* Line 35 without the test of the count.
DiceRejectedSidesOnly(term) == term.sides <= 0

\* Line 35.
DiceRejected(term) == term.sides <= 0 \/ term.num <= 0

\* Whether roll_expression(e) raises ValueError (lines 18, 36, 46).
ExprRaises(e) ==
    LET terms == TermsOf(e)
    IN  \/ Len(terms) = 0
        \/ \E k \in 1..Len(terms) :
              \/ terms[k].kind = "invalid"
              \/ terms[k].kind = "dice" /\ DiceRejected(terms[k])

ExprAlphabet == {"+", "-", "d", "D", "0", "1", "2", "6", " ", "\t"}

\* The input expressions: every string over the alphabet whose dice stay
\* within the bounds.
ExprInputs(n) ==
    {e \in StringsUpTo(ExprAlphabet, n) :
        LET terms == TermsOf(e)
        IN  \A k \in 1..Len(terms) :
                terms[k].kind = "dice" =>
                    terms[k].num <= MaxDice /\ terms[k].sides <= MaxSides}

-----------------------------------------------------------------------------
(* Spark tables: names, the catalog, select_table.                         *)
(*                                                                         *)
(* A catalog (a dict of dicts, in insertion order) is a sequence of        *)
(* [sheet, tables], tables a sequence of [table_name, table]; the keys of  *)
(* a dict are distinct.                                                    *)

MaxSheets == 3     \* most sheets of an input catalog
MaxTables == 3     \* most tables of an input catalog, all sheets together

NonAscii == {"U+00E1", "U+00C1", "U+0301", "U+0142"}

Whitespace == {" ", "\t", "\n"}

\* unicodedata.normalize("NFKD", c) of one character: an accented letter is
\* its base letter and a combining accent, the l-with-stroke has no
\* decomposition.
NFKD(c) ==
    CASE c = "U+00E1" -> <<"a", "U+0301">>
      [] c = "U+00C1" -> <<"A", "U+0301">>
      [] OTHER -> <<c>>

RECURSIVE Decompose(_)
Decompose(s) == IF Len(s) = 0 THEN <<>> ELSE NFKD(s[1]) \o Decompose(Tail(s))

\* _norm without the decomposition: what a version that forgets to fold
\* diacritics would compute.
NormNoFold(s) == Lower(Remove(Remove(s, NonAscii), Whitespace))

\* _norm, lines 114-116: decompose, drop what is not ASCII, drop whitespace,
\* lowercase.
Norm(s) == Lower(Remove(Remove(Decompose(s), NonAscii), Whitespace))

\* key in text, for strings.
IsSubstring(key, text) ==
    \E p \in 0..(Len(text) - Len(key)) : SubSeq(text, p + 1, p + Len(key)) = key

Min(S) == CHOOSE x \in S : \A y \in S : x <= y

\* What select_table hands back or raises.
Picked(data, s, t) ==
    [status |-> "ok", sheet |-> data[s].sheet,
     table_name |-> data[s].tables[t].table_name,
     table |-> data[s].tables[t].table]

Raised(kind) == [status |-> kind, sheet |-> None, table_name |-> None, table |-> None]

\* random.choice(list(tables.keys())) and the return after it (lines 187-188,
\* 195-196): any table of the sheet, IndexError when the sheet has none.
ChoiceOutcomes(data, s) ==
    IF Len(data[s].tables) = 0 THEN {Raised("IndexError")}
    ELSE {Picked(data, s, t) : t \in 1..Len(data[s].tables)}

\* Line 186 compared on the raw names.
ExactSheetsRaw(data, key) == {s \in 1..Len(data) : Lower(data[s].sheet) = key}

\* Lines 185-186: the sheets whose normalised name is the key.
ExactSheets(data, key) == {s \in 1..Len(data) : Norm(data[s].sheet) = key}

\* Lines 190-191: the tables of sheet s whose normalised name is the key.
ExactTablesIn(data, key, s) ==
    {t \in 1..Len(data[s].tables) : Norm(data[s].tables[t].table_name) = key}

\* Lines 189-192: the first sheet with such a table, 0 when there is none.
ExactTableSheet(data, key) ==
    LET hit == {s \in 1..Len(data) : ExactTablesIn(data, key, s) # {}}
    IN  IF hit = {} THEN 0 ELSE Min(hit)

FuzzyTablesIn(data, key, s) ==
    {t \in 1..Len(data[s].tables) :
        IsSubstring(key, Norm(data[s].tables[t].table_name))}

\* Lines 193-199, one loop over the sheets from sheet s on: a sheet whose
\* name contains the key ends the search, and so does a table of the sheet
\* whose name contains it, before the next sheet is looked at.
RECURSIVE FuzzyFrom(_, _, _)
FuzzyFrom(data, key, s) ==
    IF s > Len(data) THEN [kind |-> "none", s |-> 0, t |-> 0]
    ELSE IF IsSubstring(key, Norm(data[s].sheet))
    THEN [kind |-> "sheet", s |-> s, t |-> 0]
    ELSE IF FuzzyTablesIn(data, key, s) # {}
    THEN [kind |-> "table", s |-> s, t |-> Min(FuzzyTablesIn(data, key, s))]
    ELSE FuzzyFrom(data, key, s + 1)

\* The outcomes of each of the return paths of select_table.
ExactSheetOutcomes(data, key) == ChoiceOutcomes(data, Min(ExactSheets(data, key)))

ExactTableOutcomes(data, key) ==
    LET s == ExactTableSheet(data, key)
    IN  {Picked(data, s, Min(ExactTablesIn(data, key, s)))}

FuzzyOutcomes(data, key) ==
    LET hit == FuzzyFrom(data, key, 1)
    IN  IF hit.kind = "sheet" THEN ChoiceOutcomes(data, hit.s)
        ELSE {Picked(data, hit.s, hit.t)}

\* select_table(data, nm), lines 183-200: everything it can return or raise.
SelectOutcomes(data, nm) ==
    LET key == Norm(nm)
    IN  IF ExactSheets(data, key) # {} THEN ExactSheetOutcomes(data, key)
        ELSE IF ExactTableSheet(data, key) # 0 THEN ExactTableOutcomes(data, key)
        ELSE IF FuzzyFrom(data, key, 1).kind # "none" THEN FuzzyOutcomes(data, key)
        ELSE {Raised("ValueError")}

\* The names of the input catalogs and the names typed by the user.
NamePool == { <<"A", "b">>, <<"U+00E1", " ", "B">>, <<"b">> }

NameInputs ==
    { <<"a">>, <<"U+00C1", "\t", "b">>, <<"B">>, <<"x">>, <<"U+0142">> }

\* The sequences of distinct elements of S of length 0..n.
RECURSIVE DistinctSeqs(_, _)
DistinctSeqs(S, n) ==
    IF n = 0 THEN {<<>>}
    ELSE LET shorter == DistinctSeqs(S, n - 1)
         IN  shorter \cup
             UNION { {Append(q, x) : x \in S \ {q[k] : k \in 1..Len(q)}} :
                        q \in {r \in shorter : Len(r) = n - 1} }

\* A table of a catalog the selector is run on: it carries the names it was
\* filed under, so that two tables of a catalog are never equal.
MarkedTable(sheet, table_name) ==
    [columns |-> <<sheet, table_name>>, rows |-> <<>>]

SheetOf(sheet, names) ==
    [sheet |-> sheet,
     tables |-> [t \in 1..Len(names) |->
                    [table_name |-> names[t],
                     table |-> MarkedTable(sheet, names[t])]]]

\* The catalogs of at most ns sheets and nt tables in all, with sheet names
\* outside used.
RECURSIVE CatalogsWith(_, _, _)
CatalogsWith(used, ns, nt) ==
    IF ns = 0 THEN {<<>>}
    ELSE {<<>>} \cup
         UNION { {<<SheetOf(q[1], q[2])>> \o rest :
                     rest \in CatalogsWith(used \cup {q[1]}, ns - 1, nt - Len(q[2]))} :
                 q \in (NamePool \ used) \X DistinctSeqs(NamePool, nt) }

SelectCatalogs(ns, nt) == CatalogsWith({}, ns, nt)

-----------------------------------------------------------------------------
(* Spark tables: roll_spark and list_spark.                                *)

SparkRows == 12    \* the rows roll_spark requires, and the faces of its dice
MaxRows == 13      \* most rows of an input table

\* ord(c), for the characters of the names.
Ord(c) ==
    CASE c = "\t" -> 9 [] c = " " -> 32 [] c = "A" -> 65 [] c = "B" -> 66
      [] c = "a" -> 97 [] c = "b" -> 98 [] c = "x" -> 120
      [] c = "U+00C1" -> 193 [] c = "U+00E1" -> 225 [] c = "U+0142" -> 322
      [] c = "U+0301" -> 769

\* a < b for two strings: by code point, a proper prefix first.
RECURSIVE StrLess(_, _)
StrLess(a, b) ==
    IF Len(b) = 0 THEN FALSE
    ELSE IF Len(a) = 0 THEN TRUE
    ELSE IF a[1] = b[1] THEN StrLess(Tail(a), Tail(b))
    ELSE Ord(a[1]) < Ord(b[1])

\* sorted(names), for distinct names.
Sorted(names) ==
    CHOOSE q \in [1..Len(names) -> {names[k] : k \in 1..Len(names)}] :
        /\ \A k \in 1..Len(names) : \E j \in 1..Len(names) : q[j] = names[k]
        /\ \A j \in 1..(Len(names) - 1) : StrLess(q[j], q[j + 1])

\* list_spark, lines 177-181: one line per sheet, in catalog order, with the
\* sorted names of its tables.
ListSpark(data) ==
    [s \in 1..Len(data) |->
        [sheet |-> data[s].sheet,
         names |-> Sorted([t \in 1..Len(data[s].tables) |->
                              data[s].tables[t].table_name])]]

\* Line 205.
TooShort(rows) == Len(rows) < SparkRows

\* Lines 208-209 with the dice sized by the table.
FacesByLength(rows) == 1..Len(rows)

\* Lines 208-209: the faces of each of the two dice.
Faces(rows) == 1..SparkRows

\* Lines 208-215: the result for the two faces rolled.
SparkResult(tbl, r1, r2) ==
    [indices |-> <<r1, r2>>, picks |-> <<tbl.rows[r1][1], tbl.rows[r2][2]>>]

\* The input tables: row k holds a value of its own in each column.
RowsOf(n) == [k \in 1..n |-> << <<"left", k>>, <<"right", k>> >>]

RowCounts(most) == {0} \cup ((SparkRows - 2)..most)

SparkCatalogs(most) ==
    { << [sheet |-> <<"b">>,
          tables |-> [t \in 1..Len(q) |->
                        [table_name |-> q[t],
                         table |-> [columns |-> <<"Col1", "Col2">>,
                                    rows |-> RowsOf(n[t])]]]] >> :
        q \in {r \in DistinctSeqs(NamePool, 2) : Len(r) = 2},
        n \in [1..2 -> RowCounts(most)] }

-----------------------------------------------------------------------------
(* Spark tables: the delimited-text scan of load_spark.                    *)
(*                                                                         *)
(* lines is 1-based here: line i of the model is lines[i - 1] of the code. *)

MaxLines == 4      \* most lines of an input file

\* current_sheet before any sheet header: no sheet name is this sequence.
NoSheet == <<None>>

\* s.strip().
RECURSIVE LStrip(_)
LStrip(s) ==
    IF Len(s) > 0 /\ s[1] \in Whitespace THEN LStrip(Tail(s)) ELSE s

RECURSIVE RStrip(_)
RStrip(s) ==
    IF Len(s) > 0 /\ s[Len(s)] \in Whitespace
    THEN RStrip(SubSeq(s, 1, Len(s) - 1)) ELSE s

Strip(s) == RStrip(LStrip(s))

\* c in s, s.count(c).
Contains(s, c) == \E k \in 1..Len(s) : s[k] = c

Count(s, c) == Cardinality({k \in 1..Len(s) : s[k] = c})

\* s.split(c): the fields between the occurrences of c; one more field than
\* there are occurrences.
RECURSIVE Split(_, _)
Split(s, c) ==
    IF ~Contains(s, c) THEN <<s>>
    ELSE LET k == Min({j \in 1..Len(s) : s[j] = c})
         IN  <<SubSeq(s, 1, k - 1)>> \o Split(SubSeq(s, k + 1, Len(s)), c)

\* [p.strip() for p in s.split(";")], lines 142, 148, 155.
Fields(s) == LET f == Split(s, ";") IN [k \in 1..Len(f) |-> Strip(f[k])]

\* Line 135.
IsSheetHeader(raw) == Contains(raw, ":") /\ ~Contains(raw, ";")

\* Lines 141-143.
IsTableHeader(raw) ==
    /\ Count(raw, ";") >= 2
    /\ LET parts == Fields(raw)
       IN  Len(parts) >= 3 /\ parts[1] = <<>> /\ parts[2] # <<>> /\ parts[3] = <<>>

\* Line 156.
IsRow(line) == Len(Fields(line)) >= 3 /\ IsDigitStr(Fields(line)[1])

\* Lines 153-160: the line the row loop stops at, from line j on.
RECURSIVE RowsEnd(_, _)
RowsEnd(ls, j) ==
    IF j <= Len(ls) /\ IsRow(ls[j]) THEN RowsEnd(ls, j + 1) ELSE j

\* Lines 146-150: the column labels, read off the line after the header.
Col1 == <<"C", "o", "l", "1">>
Col2 == <<"C", "o", "l", "2">>

Columns(ls, h) ==
    IF h + 1 <= Len(ls) /\ Len(Fields(ls[h + 1])) >= 3
    THEN <<Fields(ls[h + 1])[2], Fields(ls[h + 1])[3]>>
    ELSE <<Col1, Col2>>

UNKNOWN == <<"U", "N", "K", "N", "O", "W", "N">>

\* sheets.setdefault(sheet, {}).
SetDefault(cat, sheet) ==
    IF \E s \in 1..Len(cat) : cat[s].sheet = sheet THEN cat
    ELSE Append(cat, [sheet |-> sheet, tables |-> <<>>])

\* tables[table_name] = tbl: in place when the key is there, else at the end.
PutIn(tables, table_name, tbl) ==
    IF \E t \in 1..Len(tables) : tables[t].table_name = table_name
    THEN [t \in 1..Len(tables) |->
            IF tables[t].table_name = table_name
            THEN [table_name |-> table_name, table |-> tbl] ELSE tables[t]]
    ELSE Append(tables, [table_name |-> table_name, table |-> tbl])

\* sheets[sheet][table_name] = tbl, line 166.
PutTable(cat, sheet, table_name, tbl) ==
    [s \in 1..Len(cat) |->
        IF cat[s].sheet = sheet
        THEN [sheet |-> sheet, tables |-> PutIn(cat[s].tables, table_name, tbl)]
        ELSE cat[s]]

\* Line 170 when the line that ended the rows is taken as read.
ResumeAfter(j) == j + 1

\* Line 170: the scan goes on at the line that ended the rows.
ResumeAt(j) == j

\* The lines of the input files.
SheetLine == <<"S", ":">>
TableLine == <<";", "T", ";">>
TableLineU == <<";", "U", ";">>
ColumnLine == <<";", "a", ";", "b">>
RowLine1 == <<"1", ";", "x", ";", "y">>
RowLine2 == <<"2", ";", "p", ";", " ", "q">>
WordLine == <<"x", ";", "y", ";", "z">>
ShortLine == <<"1", ";", "x">>

LinePool ==
    {SheetLine, TableLine, TableLineU, ColumnLine, RowLine1, RowLine2,
     WordLine, ShortLine}

\* str(k), k < 100.
DigitChar(d) ==
    CASE d = 0 -> "0" [] d = 1 -> "1" [] d = 2 -> "2" [] d = 3 -> "3"
      [] d = 4 -> "4" [] d = 5 -> "5" [] d = 6 -> "6" [] d = 7 -> "7"
      [] d = 8 -> "8" [] d = 9 -> "9"

Str(k) == IF k < 10 THEN <<DigitChar(k)>> ELSE <<DigitChar(k \div 10), DigitChar(k % 10)>>

\* A sheet header, one table header, a column line and twelve rows, row k
\* being "k;x;k".
TwelveRowFile ==
    <<SheetLine, TableLine, ColumnLine>> \o
    [k \in 1..SparkRows |-> Str(k) \o <<";", "x", ";">> \o Str(k)]

LoadInputs(n) == StringsUpTo(LinePool, n) \cup {TwelveRowFile}

-----------------------------------------------------------------------------
(* The CLI: main.                                                          *)
(*                                                                         *)
(* args is what parse_args returns; fs is the spark file at                *)
(* args.spark_file: missing, or the catalog load_spark returns for it.     *)
(* executed lists the operations main has run, in order, failed the ones   *)
(* that raised.                                                            *)

Missing == [exists |-> FALSE, data |-> <<>>]

FileOf(data) == [exists |-> TRUE, data |-> data]

\* " ".join(words).
RECURSIVE Join(_)
Join(words) ==
    IF Len(words) = 0 THEN <<>>
    ELSE IF Len(words) = 1 THEN words[1]
    ELSE words[1] \o <<" ">> \o Join(Tail(words))

\* Line 350.
ExprOf(a) == Strip(Join(a.expression))

\* Lines 119-120: load_spark raises when the file is not there.
LoadRaises(file) == ~file.exists

\* Lines 330-333: whether load, select and roll can go through, and whether
\* they can raise, for the random choices there are.
SparkCanSucceed(file, nm) ==
    /\ ~LoadRaises(file)
    /\ \E o \in SelectOutcomes(file.data, nm) :
          IF o.status = "ok" THEN ~TooShort(o.table.rows) ELSE FALSE

SparkCanRaise(file, nm) ==
    \/ LoadRaises(file)
    \/ \E o \in SelectOutcomes(file.data, nm) :
          IF o.status = "ok" THEN TooShort(o.table.rows) ELSE TRUE

\* Lines 359-361.
NothingChosen(a) ==
    ~(\/ a.mode_key # None \/ a.list_spark \/ a.spark # NoSheet
      \/ a.wilderness \/ a.luck \/ a.unresolved \/ a.mood
      \/ (a.expression # <<>> /\ Strip(Join(a.expression)) # <<>>))

TableOfRows(n) == [columns |-> <<Col1, Col2>>, rows |-> RowsOf(n)]

MainFiles ==
    { Missing,
      FileOf(<< [sheet |-> <<"b">>,
                 tables |-> << [table_name |-> <<"A", "b">>,
                                table |-> TableOfRows(SparkRows)],
                               [table_name |-> <<"x">>,
                                table |-> TableOfRows(SparkRows - 1)] >>] >>),
      FileOf(<< [sheet |-> <<"b">>, tables |-> <<>>] >>) }

MainExpressions ==
    { <<>>, << <<" ">> >>, << <<"2", "d", "6">>, <<"+">>, <<"1">> >>,
      << <<"d", "0">> >>, << <<"\t">> >> }

\* args.spark: not given (NoSheet), or the name typed.
MainSparkNames == { NoSheet, <<"B">>, <<"a">>, <<"x">>, <<"U+0142", "U+0142">> }

MainArgs ==
    [mode_key : {None, "o", "oc"}, list_spark : BOOLEAN, spark : MainSparkNames,
     wilderness : BOOLEAN, luck : BOOLEAN, unresolved : BOOLEAN, mood : BOOLEAN,
     expression : MainExpressions]

DiceIdle ==
    /\ expr = <<>> /\ dpc = "idle" /\ tokens = <<>> /\ ti = 0
    /\ total = 0 /\ details = <<>> /\ derr = None

SelIdle ==
    /\ spark_data = <<>> /\ name = <<>> /\ spc = "idle"
    /\ selected = None /\ serr = None

SparkIdle ==
    /\ table_obj = None /\ rpc = "idle" /\ rolled = <<>> /\ listing = <<>>

LoadIdle ==
    /\ lines = <<>> /\ i = 0 /\ current_sheet = NoSheet /\ sheets = <<>>
    /\ lpc = "idle"

MainIdle ==
    /\ args = <<>> /\ fs = Missing /\ mpc = "idle" /\ executed = <<>>
    /\ failed = {} /\ exit_status = None

InitDice ==
    /\ expr \in ExprInputs(MaxLen)
    /\ dpc = "start" /\ tokens = <<>> /\ ti = 0
    /\ total = 0 /\ details = <<>> /\ derr = None
    /\ SelIdle /\ SparkIdle /\ LoadIdle /\ MainIdle

\* Lines 15-20: normalise, tokenise, fail when there is no token.
Tokenize ==
    /\ dpc = "start"
    /\ tokens' = FindAll(NormalizeExpr(expr))
    /\ IF Len(tokens') = 0
       THEN /\ dpc' = "raised"
            /\ derr' = "Invalid expression. Example: 2d6 + d4 + 3"
            /\ UNCHANGED <<ti, total, details>>
       ELSE /\ dpc' = "loop"
            /\ ti' = 1
            /\ total' = 0
            /\ details' = <<>>
            /\ UNCHANGED derr
    /\ UNCHANGED <<expr, selVars, sparkVars, loadVars, mainVars>>

\* Line 38.
SubtotalUnsigned(rolls, sign) == SumSeq(rolls)

Subtotal(rolls, sign) == SumSeq(rolls) * sign

\* Line 37: the possible results of rolling num dice of the given sides.
RollsOf(num, sides) == [1..num -> 1..sides]

\* Lines 23-46: one pass of the loop body, for the token at ti.
EvalToken ==
    /\ dpc = "loop"
    /\ ti <= Len(tokens)
    /\ LET term == Term(tokens[ti])
       IN  IF term.kind = "dice"
           THEN IF DiceRejected(term)
                THEN /\ dpc' = "raised"
                     /\ derr' = "Dice and quantity must be positive."
                     /\ UNCHANGED <<ti, total, details>>
                ELSE \E rolls \in RollsOf(term.num, term.sides) :
                     /\ total' = total + Subtotal(rolls, term.sign)
                     /\ details' = Append(details,
                            [kind |-> "dice",
                             sign |-> IF term.sign > 0 THEN "+" ELSE "-",
                             num |-> term.num, sides |-> term.sides,
                             rolls |-> rolls])
                     /\ ti' = ti + 1
                     /\ UNCHANGED <<dpc, derr>>
           ELSE IF term.kind = "const"
           THEN /\ total' = total + term.num * term.sign
                /\ details' = Append(details,
                       [kind |-> "const",
                        sign |-> IF term.sign > 0 THEN "+" ELSE "-",
                        num |-> term.num, sides |-> 0, rolls |-> <<>>])
                /\ ti' = ti + 1
                /\ UNCHANGED <<dpc, derr>>
           ELSE /\ dpc' = "raised"
                /\ derr' = "Invalid token"
                /\ UNCHANGED <<ti, total, details>>
    /\ UNCHANGED <<expr, tokens, selVars, sparkVars, loadVars, mainVars>>

\* Lines 48-51: the loop is over, the total is returned.
ReturnTotal ==
    /\ dpc = "loop"
    /\ ti > Len(tokens)
    /\ dpc' = "returned"
    /\ UNCHANGED <<expr, tokens, ti, total, details, derr,
                   selVars, sparkVars, loadVars, mainVars>>

NextDice == Tokenize \/ EvalToken \/ ReturnTotal

SpecDice == InitDice /\ [][NextDice]_vars

InitSelect ==
    /\ spark_data \in SelectCatalogs(MaxSheets, MaxTables)
    /\ name \in NameInputs
    /\ spc = "called" /\ selected = None /\ serr = None
    /\ DiceIdle /\ SparkIdle /\ LoadIdle /\ MainIdle

SelectFinish(o) ==
    /\ IF o.status = "ok"
       THEN spc' = "returned" /\ selected' = o /\ UNCHANGED serr
       ELSE spc' = "raised" /\ serr' = o.status /\ UNCHANGED selected
    /\ UNCHANGED <<spark_data, name, diceVars, sparkVars, loadVars, mainVars>>

\* Lines 185-188: the first sheet whose normalised name is the key.
SelectExactSheet ==
    /\ spc = "called"
    /\ ExactSheets(spark_data, Norm(name)) # {}
    /\ \E o \in ExactSheetOutcomes(spark_data, Norm(name)) : SelectFinish(o)

\* Lines 189-192: no such sheet; the first table whose normalised name is
\* the key.
SelectExactTable ==
    /\ spc = "called"
    /\ ExactSheets(spark_data, Norm(name)) = {}
    /\ ExactTableSheet(spark_data, Norm(name)) # 0
    /\ \E o \in ExactTableOutcomes(spark_data, Norm(name)) : SelectFinish(o)

\* Lines 193-199: no exact match; the first hit of the substring loop.
SelectFuzzy ==
    /\ spc = "called"
    /\ ExactSheets(spark_data, Norm(name)) = {}
    /\ ExactTableSheet(spark_data, Norm(name)) = 0
    /\ FuzzyFrom(spark_data, Norm(name), 1).kind # "none"
    /\ \E o \in FuzzyOutcomes(spark_data, Norm(name)) : SelectFinish(o)

\* Line 200: nothing matched.
SelectNoMatch ==
    /\ spc = "called"
    /\ ExactSheets(spark_data, Norm(name)) = {}
    /\ ExactTableSheet(spark_data, Norm(name)) = 0
    /\ FuzzyFrom(spark_data, Norm(name), 1).kind = "none"
    /\ SelectFinish(Raised("ValueError"))

NextSelect == SelectExactSheet \/ SelectExactTable \/ SelectFuzzy \/ SelectNoMatch

SpecSelect == InitSelect /\ [][NextSelect]_vars

InitSpark ==
    /\ spark_data \in SparkCatalogs(MaxRows)
    /\ \E t \in 1..Len(spark_data[1].tables) : table_obj = spark_data[1].tables[t].table
    /\ rpc = "called" /\ rolled = <<>> /\ listing = <<>>
    /\ name = <<>> /\ spc = "idle" /\ selected = None /\ serr = None
    /\ DiceIdle /\ LoadIdle /\ MainIdle

\* Lines 203-206: the table is too short, roll_spark raises.
RollSparkShort ==
    /\ rpc = "called"
    /\ TooShort(table_obj.rows)
    /\ rpc' = "raised"
    /\ UNCHANGED <<table_obj, rolled, listing, diceVars, selVars, loadVars, mainVars>>

\* Lines 203-215: two dice, the picks they select.
RollSpark ==
    /\ rpc = "called"
    /\ ~TooShort(table_obj.rows)
    /\ \E r1 \in Faces(table_obj.rows), r2 \in Faces(table_obj.rows) :
          rolled' = <<SparkResult(table_obj, r1, r2)>>
    /\ rpc' = "returned"
    /\ UNCHANGED <<table_obj, listing, diceVars, selVars, loadVars, mainVars>>

\* list_spark on the catalog.
ListSparkCall ==
    /\ listing = <<>>
    /\ rpc # "idle"
    /\ listing' = <<ListSpark(spark_data)>>
    /\ UNCHANGED <<table_obj, rpc, rolled, diceVars, selVars, loadVars, mainVars>>

NextSpark == RollSparkShort \/ RollSpark \/ ListSparkCall

SpecSpark == InitSpark /\ [][NextSpark]_vars

\* Lines 126-131.
InitLoad ==
    /\ lines \in LoadInputs(MaxLines)
    /\ i = 1 /\ current_sheet = NoSheet /\ sheets = <<>> /\ lpc = "scanning"
    /\ DiceIdle /\ SelIdle /\ SparkIdle /\ MainIdle

\* Lines 135-139: a sheet header.
SheetHeader ==
    /\ lpc = "scanning" /\ i <= Len(lines)
    /\ IsSheetHeader(Strip(lines[i]))
    /\ current_sheet' = Strip(Split(Strip(lines[i]), ":")[1])
    /\ sheets' = SetDefault(sheets, current_sheet')
    /\ i' = i + 1
    /\ UNCHANGED <<lines, lpc, diceVars, selVars, sparkVars, mainVars>>

\* Lines 141-171: a table header, its column line and its rows.
TableHeader ==
    /\ lpc = "scanning" /\ i <= Len(lines)
    /\ ~IsSheetHeader(Strip(lines[i]))
    /\ IsTableHeader(Strip(lines[i]))
    /\ LET table_name == Fields(Strip(lines[i]))[2]
           j == RowsEnd(lines, i + 2)
           rows == [k \in 1..(j - (i + 2)) |->
                      <<Fields(lines[i + 1 + k])[2], Fields(lines[i + 1 + k])[3]>>]
       IN  /\ current_sheet' = IF current_sheet = NoSheet THEN UNKNOWN ELSE current_sheet
           /\ sheets' = PutTable(SetDefault(sheets, current_sheet'), current_sheet',
                                 table_name,
                                 [columns |-> Columns(lines, i), rows |-> rows])
           /\ i' = ResumeAt(j)
    /\ UNCHANGED <<lines, lpc, diceVars, selVars, sparkVars, mainVars>>

\* Line 173: any other line.
SkipLine ==
    /\ lpc = "scanning" /\ i <= Len(lines)
    /\ ~IsSheetHeader(Strip(lines[i]))
    /\ ~IsTableHeader(Strip(lines[i]))
    /\ i' = i + 1
    /\ UNCHANGED <<lines, current_sheet, sheets, lpc,
                   diceVars, selVars, sparkVars, mainVars>>

\* Lines 132 and 175: the lines are used up, the catalog is returned.
LoadReturn ==
    /\ lpc = "scanning" /\ i > Len(lines)
    /\ lpc' = "returned"
    /\ UNCHANGED <<lines, i, current_sheet, sheets,
                   diceVars, selVars, sparkVars, mainVars>>

NextLoad == SheetHeader \/ TableHeader \/ SkipLine \/ LoadReturn

SpecLoad == InitLoad /\ [][NextLoad]_vars

InitMain ==
    /\ args \in MainArgs
    /\ fs \in MainFiles
    /\ mpc = "oracle" /\ executed = <<>> /\ failed = {} /\ exit_status = None
    /\ DiceIdle /\ SelIdle /\ SparkIdle /\ LoadIdle

MainOthers == <<diceVars, selVars, sparkVars, loadVars>>

\* A stage of main that cannot fail: run op when it is selected, go on.
MainRun(at, chosen, op, then) ==
    /\ mpc = at
    /\ executed' = IF chosen THEN Append(executed, op) ELSE executed
    /\ mpc' = then
    /\ UNCHANGED <<args, fs, failed, exit_status, MainOthers>>

\* Lines 303-316.
MainOracle == MainRun("oracle", args.mode_key # None, "oracle", "list")

\* Lines 319-325 with a listing failure ending the run, as line 336 does
\* for the spark roll.
MainListAborting ==
    /\ mpc = "list"
    /\ executed' = IF args.list_spark THEN Append(executed, "list") ELSE executed
    /\ failed' = IF args.list_spark /\ LoadRaises(fs) THEN failed \cup {"list"} ELSE failed
    /\ IF args.list_spark /\ LoadRaises(fs)
       THEN mpc' = "exited" /\ exit_status' = 1
       ELSE mpc' = "spark" /\ UNCHANGED exit_status
    /\ UNCHANGED <<args, fs, MainOthers>>

\* Lines 319-325: the listing; its failure is printed and main goes on.
MainList ==
    /\ mpc = "list"
    /\ executed' = IF args.list_spark THEN Append(executed, "list") ELSE executed
    /\ failed' = IF args.list_spark /\ LoadRaises(fs) THEN failed \cup {"list"} ELSE failed
    /\ mpc' = "spark"
    /\ UNCHANGED <<args, fs, exit_status, MainOthers>>

\* Lines 328-336, the spark roll not selected or going through.
MainSpark ==
    /\ mpc = "spark"
    /\ args.spark # NoSheet => SparkCanSucceed(fs, args.spark)
    /\ executed' = IF args.spark # NoSheet THEN Append(executed, "spark") ELSE executed
    /\ mpc' = "wilderness"
    /\ UNCHANGED <<args, fs, failed, exit_status, MainOthers>>

\* Lines 328-336, the spark roll raising: sys.exit(1).
MainSparkFails ==
    /\ mpc = "spark"
    /\ args.spark # NoSheet
    /\ SparkCanRaise(fs, args.spark)
    /\ executed' = Append(executed, "spark")
    /\ failed' = failed \cup {"spark"}
    /\ mpc' = "exited"
    /\ exit_status' = 1
    /\ UNCHANGED <<args, fs, MainOthers>>

\* Lines 339-346.
MainWilderness == MainRun("wilderness", args.wilderness, "wilderness", "luck")
MainLuck == MainRun("luck", args.luck, "luck", "unresolved")
MainUnresolved == MainRun("unresolved", args.unresolved, "unresolved", "mood")
MainMood == MainRun("mood", args.mood, "mood", "dice")

\* Lines 349-356: the dice expression, sys.exit(1) when it raises.
MainDice ==
    /\ mpc = "dice"
    /\ LET chosen == args.expression # <<>> /\ ExprOf(args) # <<>>
       IN  /\ executed' = IF chosen THEN Append(executed, "dice") ELSE executed
           /\ IF chosen /\ ExprRaises(ExprOf(args))
              THEN /\ failed' = failed \cup {"dice"}
                   /\ mpc' = "exited"
                   /\ exit_status' = 1
              ELSE /\ mpc' = "usage"
                   /\ UNCHANGED <<failed, exit_status>>
    /\ UNCHANGED <<args, fs, MainOthers>>

\* Lines 359-366: nothing chosen is sys.exit(1); else main returns, and the
\* exit status is 0.
MainUsage ==
    /\ mpc = "usage"
    /\ exit_status' = IF NothingChosen(args) THEN 1 ELSE 0
    /\ mpc' = "exited"
    /\ UNCHANGED <<args, fs, executed, failed, MainOthers>>

NextMain ==
    \/ MainOracle \/ MainList \/ MainSpark \/ MainSparkFails
    \/ MainWilderness \/ MainLuck \/ MainUnresolved \/ MainMood
    \/ MainDice \/ MainUsage

SpecMain == InitMain /\ [][NextMain]_vars

-----------------------------------------------------------------------------
(* Claims about roll_expression.                                           *)

HasNonPositiveDice(e) ==
    LET terms == TermsOf(e)
    IN  \E k \in 1..Len(terms) :
            /\ terms[k].kind = "dice"
            /\ (terms[k].num <= 0 \/ terms[k].sides <= 0)

Expr_0d6 == <<"0", "d", "6">>
Expr_d0 == <<"d", "0">>
Expr_m1d6 == <<"-", "1", "d", "6">>

\* C2 as stated: an expression with a dice token of non-positive count or
\* sides never returns a total, and neither does any of "0d6", "d0", "-1d6".
C2_NonPositiveDiceFail ==
    (HasNonPositiveDice(expr) \/ expr \in {Expr_0d6, Expr_d0, Expr_m1d6})
        => dpc # "returned"

\* C2 (amended): an expression with a dice token of count 0 or sides 0
\* never returns a total and, once it has failed, failed with the "must be
\* positive" error; "0d6" and "d0" are such expressions.  "-1d6" is one die
\* of six sides with a minus sign: it never fails, and the total it returns
\* lies in -6..-1.
C2_ZeroDiceFail ==
    /\ HasNonPositiveDice(expr) =>
          /\ dpc # "returned"
          /\ dpc = "raised" => derr = "Dice and quantity must be positive."
    /\ HasNonPositiveDice(Expr_0d6) /\ HasNonPositiveDice(Expr_d0)
    /\ expr = Expr_m1d6 =>
          /\ dpc # "raised"
          /\ dpc = "returned" => total \in (-6)..(-1)

C2_Witness ==
    /\ expr = Expr_0d6
    /\ dpc = "raised"
    /\ derr = "Dice and quantity must be positive."

C6_Sign(k) == IF tokens[k][1] = "-" THEN -1 ELSE 1

C6_Value(k) ==
    IF details[k].kind = "dice"
    THEN C6_Sign(k) * SumSeq(details[k].rolls)
    ELSE C6_Sign(k) * details[k].num

RECURSIVE C6_SignedSum(_)
C6_SignedSum(n) == IF n = 0 THEN 0 ELSE C6_SignedSum(n - 1) + C6_Value(n)

\* C6: while roll_expression evaluates and when it returns, the total is the
\* sum of the signed values of the tokens evaluated so far (all of them at
\* the return), a dice token has rolled exactly count dice, each in
\* 1..sides, and its contribution lies between sign*count and
\* sign*count*sides.
C6_TotalIsSignedSum ==
    dpc \in {"loop", "returned"} =>
        /\ Len(details) = ti - 1
        /\ dpc = "returned" => Len(details) = Len(tokens)
        /\ total = C6_SignedSum(Len(details))
        /\ \A k \in 1..Len(details) :
              details[k].kind = "dice" =>
                /\ Len(details[k].rolls) = details[k].num
                /\ \A j \in 1..Len(details[k].rolls) :
                      details[k].rolls[j] \in 1..details[k].sides
                /\ LET lo == C6_Sign(k) * details[k].num
                       hi == C6_Sign(k) * details[k].num * details[k].sides
                   IN  IF C6_Sign(k) > 0
                       THEN C6_Value(k) \in lo..hi
                       ELSE C6_Value(k) \in hi..lo

C6_Witness ==
    /\ dpc = "returned"
    /\ Len(details) = 2
    /\ details[1].kind = "const"
    /\ details[2].kind = "dice" /\ details[2].sign = "-"
    /\ total < 0

InsertAt(s, p, c) == SubSeq(s, 1, p - 1) \o <<c>> \o SubSeq(s, p, Len(s))

UpperChar(c) == IF c = "d" THEN "D" ELSE c

Upper(s) == [k \in 1..Len(s) |-> UpperChar(s[k])]

\* C10 as stated: the term sequence of an expression is that of every
\* variant made by inserting one whitespace character (space, tab, newline)
\* anywhere, or by changing the case of its letters.
C10_WhitespaceAndCaseIgnored ==
    /\ \A p \in 1..(Len(expr) + 1) : \A w \in {" ", "\t", "\n"} :
          TermsOf(InsertAt(expr, p, w)) = TermsOf(expr)
    /\ TermsOf(Upper(expr)) = TermsOf(expr)
    /\ TermsOf(Lower(expr)) = TermsOf(expr)

-----------------------------------------------------------------------------
(* Claims about select_table.                                              *)

SomeExactMatch ==
    \/ \E s \in 1..Len(spark_data) : Norm(spark_data[s].sheet) = Norm(name)
    \/ \E s \in 1..Len(spark_data) : \E t \in 1..Len(spark_data[s].tables) :
          Norm(spark_data[s].tables[t].table_name) = Norm(name)

FuzzySheetIdx ==
    {s \in 1..Len(spark_data) : IsSubstring(Norm(name), Norm(spark_data[s].sheet))}

SomeFuzzyTable ==
    \E s \in 1..Len(spark_data) : \E t \in 1..Len(spark_data[s].tables) :
        IsSubstring(Norm(name), Norm(spark_data[s].tables[t].table_name))

\* C1 as stated: when select_table returns and nothing matches exactly, a
\* sheet whose normalised name contains the key anywhere in the catalog
\* makes the result a table of the first such sheet (when that sheet has
\* a table); a table matched by substring is returned only when no sheet
\* matches by substring.
C1_FuzzySheetBeforeFuzzyTable ==
    (/\ spc = "returned" /\ ~SomeExactMatch /\ FuzzySheetIdx # {}
     /\ spark_data[Min(FuzzySheetIdx)].tables # <<>>) =>
        selected.sheet = spark_data[Min(FuzzySheetIdx)].sheet

\* catalog[sheet][table name]: the entries filed under the two names (one
\* at most, the keys of a dict being distinct).
Lookup(data, sheet, table_name) ==
    UNION { {data[s].tables[t].table :
                t \in {u \in 1..Len(data[s].tables) :
                         data[s].tables[u].table_name = table_name}} :
            s \in {r \in 1..Len(data) : data[r].sheet = sheet} }

\* C4 as stated: select_table returns a triple whose table is the catalog's
\* entry under the returned names, or fails; it fails only when neither a
\* sheet nor a table matches in any phase, with the "no match" error; a
\* name matching some sheet or table is never answered with an error.
C4_ReturnsEntryOrNoMatch ==
    /\ spc = "returned" =>
          Lookup(spark_data, selected.sheet, selected.table_name) = {selected.table}
    /\ spc = "raised" =>
          /\ serr = "ValueError"
          /\ ~SomeExactMatch /\ FuzzySheetIdx = {} /\ ~SomeFuzzyTable

ToUpper(s) ==
    [k \in 1..Len(s) |->
        CASE s[k] = "a" -> "A" [] s[k] = "b" -> "B" [] s[k] = "x" -> "X"
          [] s[k] = "U+00E1" -> "U+00C1" [] OTHER -> s[k]]

Accented(s) ==
    [k \in 1..Len(s) |->
        CASE s[k] = "a" -> "U+00E1" [] s[k] = "A" -> "U+00C1" [] OTHER -> s[k]]

-----------------------------------------------------------------------------
(* Claims about roll_spark and list_spark.                                 *)

Listed(tbl) ==
    \E s \in 1..Len(spark_data) : \E t \in 1..Len(spark_data[s].tables) :
        /\ spark_data[s].tables[t].table = tbl
        /\ listing[1][s].sheet = spark_data[s].sheet
        /\ \E k \in 1..Len(listing[1][s].names) :
              listing[1][s].names[k] = spark_data[s].tables[t].table_name

\* C7: roll_spark returns only for a table of at least 12 rows, and then
\* two indices in 1..12 with column 1 of row r1 and column 2 of row r2; for
\* a table of fewer than 12 rows it raises and returns nothing; list_spark
\* lists every table of the catalog, the short ones too.
C7_RollNeedsTwelveRows ==
    /\ rpc = "returned" =>
          /\ Len(table_obj.rows) >= 12
          /\ Len(rolled) = 1
          /\ rolled[1].indices[1] \in 1..12 /\ rolled[1].indices[2] \in 1..12
          /\ rolled[1].picks[1] = <<"left", rolled[1].indices[1]>>
          /\ rolled[1].picks[2] = <<"right", rolled[1].indices[2]>>
    /\ rpc = "raised" => Len(table_obj.rows) < 12 /\ rolled = <<>>
    /\ (rpc # "idle" /\ Len(table_obj.rows) < 12) => rpc # "returned"
    /\ (rpc # "idle" /\ listing # <<>>) =>
          /\ Len(listing[1]) = Len(spark_data)
          /\ \A s \in 1..Len(spark_data) : \A t \in 1..Len(spark_data[s].tables) :
                Listed(spark_data[s].tables[t].table)

C7_Witness ==
    /\ rpc = "raised"
    /\ Len(table_obj.rows) = 11
    /\ listing # <<>>
    /\ Listed(table_obj)

-----------------------------------------------------------------------------
(* Claims about the scan of load_spark.                                    *)

C8_IsSheetLine(line) ==
    (\E k \in 1..Len(line) : line[k] = ":") /\ ~(\E k \in 1..Len(line) : line[k] = ";")

C8_IsTableLine(line) ==
    /\ ~C8_IsSheetLine(line)
    /\ Len(Fields(line)) >= 3
    /\ Fields(line)[1] = <<>> /\ Fields(line)[2] # <<>> /\ Fields(line)[3] = <<>>

C8_IsRowLine(line) ==
    /\ Len(Fields(line)) >= 3
    /\ Fields(line)[1] # <<>>
    /\ \A k \in 1..Len(Fields(line)[1]) : Fields(line)[1][k] \in Digits

\* The length of the longest run of row lines that starts two lines after
\* line h.
C8_Run(h) ==
    CHOOSE r \in 0..Len(lines) :
        /\ \A k \in 1..r : h + 1 + k <= Len(lines) /\ C8_IsRowLine(lines[h + 1 + k])
        /\ ~(h + 2 + r <= Len(lines) /\ C8_IsRowLine(lines[h + 2 + r]))

\* One step of the scan, at line i.
C8_Step ==
    (lpc = "scanning" /\ i <= Len(lines)) =>
        /\ C8_IsSheetLine(lines[i]) =>
              /\ i' = i + 1
              /\ current_sheet' = Strip(Split(lines[i], ":")[1])
              /\ \E s \in 1..Len(sheets') : sheets'[s].sheet = current_sheet'
        /\ C8_IsTableLine(lines[i]) =>
              LET run == C8_Run(i)
                  sh == IF current_sheet = NoSheet THEN UNKNOWN ELSE current_sheet
              IN  /\ i' = i + 2 + run
                  /\ current_sheet' = sh
                  /\ \E s \in 1..Len(sheets') : \E t \in 1..Len(sheets'[s].tables) :
                        /\ sheets'[s].sheet = sh
                        /\ sheets'[s].tables[t].table_name = Fields(lines[i])[2]
                        /\ Len(sheets'[s].tables[t].table.rows) = run
                        /\ \A k \in 1..run :
                              sheets'[s].tables[t].table.rows[k] =
                                  <<Fields(lines[i + 1 + k])[2], Fields(lines[i + 1 + k])[3]>>
                        /\ (i + 1 <= Len(lines) /\ Len(Fields(lines[i + 1])) >= 3) =>
                              sheets'[s].tables[t].table.columns =
                                  <<Fields(lines[i + 1])[2], Fields(lines[i + 1])[3]>>

\* The catalog of the file of a sheet header, a table header, a column line
\* and twelve rows.
C8_TwelveRowCatalog ==
    << [sheet |-> <<"S">>,
        tables |-> << [table_name |-> <<"T">>,
                       table |-> [columns |-> << <<"a">>, <<"b">> >>,
                                  rows |-> [k \in 1..12 |-> << <<"x">>, Str(k) >>]]] >>] >>

\* C8: in the scan, a sheet header makes its name the current sheet; a
\* table header files, under the current sheet (UNKNOWN when there is
\* none), a table whose labels are fields 1 and 2 of the next line and whose
\* rows are the longest run of row lines starting two lines after the
\* header, in file order, and the scan goes on AT the line that ended the
\* run, so that a header there takes effect.  The file of a sheet header, a
\* table header, a column line and 12 rows yields the one table of 12 rows.
C8_LoadScan ==
    /\ [][C8_Step]_vars
    /\ []((lpc = "returned" /\ lines = TwelveRowFile) => sheets = C8_TwelveRowCatalog)

\* A table of one row filed under UNKNOWN, and the sheet header that ended
\* its rows has taken effect.
C8_Witness ==
    /\ lpc = "returned"
    /\ lines = <<TableLine, ColumnLine, RowLine2, SheetLine>>
    /\ sheets = << [sheet |-> UNKNOWN,
                    tables |-> << [table_name |-> <<"T">>,
                                   table |-> [columns |-> << <<"a">>, <<"b">> >>,
                                              rows |-> << << <<"p">>, <<"q">> >> >>]] >>],
                   [sheet |-> <<"S">>, tables |-> <<>>] >>
    /\ current_sheet = <<"S">>

-----------------------------------------------------------------------------
(* Claims about main.                                                      *)

\* The operations the flags select.
Flagged(op) ==
    CASE op = "oracle" -> args.mode_key # None
      [] op = "list" -> args.list_spark
      [] op = "spark" -> args.spark # NoSheet
      [] op = "wilderness" -> args.wilderness
      [] op = "luck" -> args.luck
      [] op = "unresolved" -> args.unresolved
      [] op = "mood" -> args.mood
      [] op = "dice" -> Remove(Join(args.expression), Whitespace) # <<>>

SelectedOps ==
    {op \in {"oracle", "list", "spark", "wilderness", "luck", "unresolved",
             "mood", "dice"} : Flagged(op)}

Ran == {executed[k] : k \in 1..Len(executed)}

\* C3 as stated: main's exit status is non-zero exactly when a selected
\* operation failed (the listing included) or no operation was selected.
C3_ExitStatus ==
    mpc = "exited" =>
        (exit_status # 0 <=> (failed # {} \/ SelectedOps = {}))

Rank(op) ==
    CASE op = "oracle" -> 1 [] op = "list" -> 2 [] op = "spark" -> 3
      [] op = "wilderness" -> 4 [] op = "luck" -> 5 [] op = "unresolved" -> 6
      [] op = "mood" -> 7 [] op = "dice" -> 8

InOrder == \A a, b \in 1..Len(executed) : a < b => Rank(executed[a]) < Rank(executed[b])

\* C9 as stated: when the listing has failed, every other selected
\* operation has been executed by the end of the run, in the fixed order.
C9_ListFailureRunsAll ==
    (mpc = "exited" /\ "list" \in failed) =>
        /\ SelectedOps \subseteq Ran
        /\ InOrder

\* C9 (amended): a failure of the listing does not end the run: the spark
\* roll, when selected, is still executed next; the narrative rolls and the
\* dice expression selected are executed as well unless the spark roll
\* itself fails, which ends the run with status 1; what is executed is
\* executed in the order oracle, listing, spark roll, narrative rolls, dice
\* expression.
C9_ListFailureDoesNotAbort ==
    /\ InOrder
    /\ Ran \subseteq SelectedOps
    /\ (mpc = "exited" /\ "list" \in failed) =>
          /\ "spark" \in SelectedOps => "spark" \in Ran
          /\ "spark" \notin failed => SelectedOps \subseteq Ran
          /\ "spark" \in failed => exit_status = 1

C9_Witness ==
    /\ mpc = "exited"
    /\ "list" \in failed
    /\ exit_status = 0
    /\ executed = <<"oracle", "list", "wilderness", "mood", "dice">>

====
